---- MODULE Spec2Model ----
(***************************************************************************)
(* Model of interpreter.py: a lexer, a recursive-descent parser and a      *)
(* tree-walking interpreter for integer arithmetic expressions, and the    *)
(* read-evaluate-print loop around them.                                   *)
(*                                                                         *)
(* A Python str is a sequence of one-character strings; Python index i is  *)
(* TLA+ index i + 1.  Python's None is the string "None" (no character of  *)
(* a source is four characters long).                                      *)
(***************************************************************************)
EXTENDS Integers, Sequences, FiniteSets, TLC

VARIABLES given, lexer, parser, ast, error, result, emitted, pc, stdin, stdout

vars == <<given, lexer, parser, ast, error, result, emitted, pc, stdin, stdout>>

(***************************************************************************)
(* Bounds of the model.                                                    *)
(***************************************************************************)
\* Longest source drawn character by character.
MaxLen == 4
\* Integer literals written into the expression shapes are 0..MaxLit.
MaxLit == 8
\* Longest chain of unary signs written in front of a factor.
MaxSigns == 3
\* get_next_token() calls made after the cursor has left the source.
MaxOverrun == 2
\* Lines the read loop is given, and the longest of them.
MaxLines == 2
MaxLineLen == 2

None == "None"

(***************************************************************************)
(* Lexical analyzer                                                        *)
(***************************************************************************)
Token(type_, value) == [type |-> type_, value |-> value]

\* str.isdigit() on the ASCII characters.
Digits == {"0", "1", "2", "3", "4", "5", "6", "7", "8", "9"}

\* str.isspace() on the ASCII characters.
Whitespace == {" ", "\t", "\n", "\r", "\f"}

\* Lexer.operations
OperationChars == {"+", "-", "*", "/"}

Operations(c) ==
    CASE c = "+" -> "PLUS"
      [] c = "-" -> "MINUS"
      [] c = "*" -> "MULT"
      [] c = "/" -> "DIV"

\* Lexer.__init__
NewLexer(source) ==
    [source |-> source, pos |-> -1, curr_char |-> None,
     curr_token |-> Token("START", None)]

\* Lexer.advance
Advance(L, reverse) ==
    IF reverse
    THEN LET p == L.pos - 1 IN
         IF p > 0
         THEN [L EXCEPT !.pos = p, !.curr_char = L.source[p + 1]]
         ELSE [L EXCEPT !.pos = p, !.curr_char = Token("START", None)]
    ELSE LET p == L.pos + 1 IN
         IF p < Len(L.source)
         THEN [L EXCEPT !.pos = p, !.curr_char = L.source[p + 1]]
         ELSE [L EXCEPT !.pos = p, !.curr_char = None,
                        !.curr_token = Token("EOF", None)]

CurrCharIsDigit(L) == L.curr_char # None /\ L.curr_char \in Digits

CurrCharIsOperation(L) == L.curr_char # None /\ L.curr_char \in OperationChars

\* Mutant: only the blank is taken for whitespace.
CurrCharIsBlank(L) == L.curr_char # None /\ L.curr_char = " "

CurrCharIsSpace(L) == L.curr_char # None /\ L.curr_char \in Whitespace

CurrCharIsLparen(L) == L.curr_char # None /\ L.curr_char = "("

CurrCharIsRparen(L) == L.curr_char # None /\ L.curr_char = ")"

DigitValue(c) ==
    CASE c = "0" -> 0 [] c = "1" -> 1 [] c = "2" -> 2 [] c = "3" -> 3
      [] c = "4" -> 4 [] c = "5" -> 5 [] c = "6" -> 6 [] c = "7" -> 7
      [] c = "8" -> 8 [] c = "9" -> 9

\* int(full_number) for a non-empty string of ASCII digits.
RECURSIVE ToInt(_)
ToInt(full_number) ==
    IF Len(full_number) = 1
    THEN DigitValue(full_number[1])
    ELSE 10 * ToInt(SubSeq(full_number, 1, Len(full_number) - 1))
         + DigitValue(full_number[Len(full_number)])

\* The while loop of take_full_integer.
RECURSIVE TakeDigits(_, _)
TakeDigits(L, full_number) ==
    IF CurrCharIsDigit(L)
    THEN TakeDigits(Advance(L, FALSE), Append(full_number, L.curr_char))
    ELSE [lexer |-> L, full_number |-> full_number]

\* Mutant: the cursor is not stepped back onto the last digit.
TakeFullIntegerNoReverse(L) ==
    LET r == TakeDigits(L, <<>>) IN
    [lexer |-> r.lexer, value |-> ToInt(r.full_number)]

\* Lexer.take_full_integer: the lexer it leaves and the value it returns.
TakeFullInteger(L) ==
    LET r == TakeDigits(L, <<>>) IN
    [lexer |-> Advance(r.lexer, TRUE), value |-> ToInt(r.full_number)]

\* self.curr_token == TokenType.EOF: Token defines no __eq__, so a Token
\* compared with a TokenType member is compared by identity.
TokenEqualsType(token, type_) == FALSE

\* Lexer.get_next_token: the lexer it leaves; its curr_token is the token
\* returned.
RECURSIVE GetNextToken(_)
GetNextToken(L) ==
    LET A == Advance(L, FALSE) IN
    IF TokenEqualsType(A.curr_token, "EOF") \/ A.pos >= Len(A.source)
    THEN [A EXCEPT !.curr_token = Token("EOF", None)]
    ELSE IF CurrCharIsDigit(A)
    THEN LET r == TakeFullInteger(A) IN
         [r.lexer EXCEPT !.curr_token = Token("INTEGER", r.value)]
    ELSE IF CurrCharIsOperation(A)
    THEN [A EXCEPT !.curr_token = Token(Operations(A.curr_char), A.curr_char)]
    ELSE IF CurrCharIsLparen(A)
    THEN [A EXCEPT !.curr_token = Token("LPAREN", "(")]
    ELSE IF CurrCharIsRparen(A)
    THEN [A EXCEPT !.curr_token = Token("RPAREN", ")")]
    ELSE IF CurrCharIsSpace(A)
    THEN GetNextToken(A)
    ELSE [A EXCEPT !.curr_token = Token("EOF", None)]

(***************************************************************************)
(* Parser / syntax analyzer                                                *)
(*                                                                         *)
(* A parser is [lexer, curr_token].  A parsing method gives the parser it  *)
(* leaves and either the node it returns or the exception it raises.       *)
(***************************************************************************)
Num(token) == [class |-> "Num", token |-> token]

UnaryOp(token, expr) == [class |-> "UnaryOp", token |-> token, expr |-> expr]

BinOp(token, left, right) ==
    [class |-> "BinOp", token |-> token, left |-> left, right |-> right]

Return(P, node) == [raised |-> FALSE, exc |-> <<>>, parser |-> P, node |-> node]

\* Parser.raise_exception
RaiseException(P, error_message) ==
    [raised |-> TRUE, exc |-> error_message, parser |-> P, node |-> None]

\* self.curr_token = self.lexer.get_next_token(), L being the lexer the
\* call leaves.
WithCurrToken(L) == [lexer |-> L, curr_token |-> L.curr_token]

\* Parser.__init__
NewParser(lexical_analyzer) == WithCurrToken(GetNextToken(lexical_analyzer))

\* Parser.eat
Eat(P, or_) ==
    IF \E i \in 1..Len(or_) : P.curr_token.type = or_[i]
    THEN Return(WithCurrToken(GetNextToken(P.lexer)), None)
    ELSE RaiseException(P, <<"I was expecting for">> \o or_
                           \o <<"but got", P.curr_token.type>>)

\* The token types the while loops of term and expr go on.
TermOperators == {"MULT", "DIV"}

ExprOperators == {"PLUS", "MINUS"}

\* Mutants: the right operand of expr's loop parsed by factor (no
\* precedence), or by expr (grouping from the right).
ExprRightOperandIsFactor == "factor"

ExprRightOperandIsExpr == "expr"

\* The method the loop of expr calls for the right operand: self.term().
ExprRightOperand == "term"

\* The method the loop of term calls for the right operand: self.factor().
TermRightOperand == "factor"

(***************************************************************************)
(* The mutually recursive methods factor, term and expr run on a call      *)
(* stack.  A frame is a call in progress: its method, the place in the     *)
(* method where it goes on when the call it made returns, and its locals   *)
(* (token or op, and the tree built so far).  A configuration is the       *)
(* parser, the stack, the node the last call returned, and the exception   *)
(* raised, if any: nothing in the parser catches one.                      *)
(***************************************************************************)
Frame(method, at, token, node) ==
    [method |-> method, at |-> at, token |-> token, node |-> node]

\* A call of method, about to run its first statement.
Enter(method) == Frame(method, "enter", None, None)

Callers(c) == SubSeq(c.stack, 1, Len(c.stack) - 1)

\* The running method goes on as the frames fs (itself, then its callee).
GoOn(c, P, fs) == [c EXCEPT !.parser = P, !.stack = Callers(c) \o fs]

\* The running method returns node.
ReturnNode(c, P, node) ==
    [c EXCEPT !.parser = P, !.stack = Callers(c), !.ret = node]

\* The running method raises the exception of e.
Raise(c, e) == [c EXCEPT !.parser = e.parser, !.raised = TRUE, !.exc = e.exc]

\* The running method's next stretch of code, up to the call it makes, its
\* return or its raise.
Step(c) ==
    LET f == c.stack[Len(c.stack)]
        P == c.parser
    IN
    CASE f.method = "factor" /\ f.at = "enter" ->
           LET token == P.curr_token IN
           IF token.type = "INTEGER"
           THEN LET e == Eat(P, <<"INTEGER">>) IN
                IF e.raised THEN Raise(c, e)
                ELSE ReturnNode(c, e.parser, Num(token))
           ELSE IF token.type = "LPAREN"
           THEN LET e == Eat(P, <<"LPAREN">>) IN
                IF e.raised THEN Raise(c, e)
                ELSE GoOn(c, e.parser, <<Frame("factor", "rparen", token, None),
                                         Enter("expr")>>)
           ELSE IF token.type \in {"PLUS", "MINUS"}
           THEN LET e == Eat(P, <<"PLUS", "MINUS">>) IN
                IF e.raised THEN Raise(c, e)
                ELSE GoOn(c, e.parser, <<Frame("factor", "unary", token, None),
                                         Enter("factor")>>)
           ELSE Raise(c, RaiseException(P, <<"Invalid Factor">>))
      [] f.method = "factor" /\ f.at = "rparen" ->
           \* ast_node = self.expr() has returned
           LET e == Eat(P, <<"RPAREN">>) IN
           IF e.raised THEN Raise(c, e) ELSE ReturnNode(c, e.parser, c.ret)
      [] f.method = "factor" /\ f.at = "unary" ->
           \* self.factor() has returned
           ReturnNode(c, P, UnaryOp(f.token, c.ret))
      [] f.method = "term" /\ f.at = "enter" ->
           GoOn(c, P, <<Frame("term", "left", None, None), Enter("factor")>>)
      [] f.method = "term" /\ f.at \in {"left", "right"} ->
           \* self.factor() has returned: the first factor, or the right
           \* operand of a BinOp; then the while condition
           LET factor == IF f.at = "left" THEN c.ret
                         ELSE BinOp(f.token, f.node, c.ret)
           IN  IF P.curr_token.type \in TermOperators
               THEN LET token == P.curr_token
                        e == Eat(P, <<"MULT", "DIV">>)
                    IN  IF e.raised THEN Raise(c, e)
                        ELSE GoOn(c, e.parser,
                                  <<Frame("term", "right", token, factor),
                                    Enter(TermRightOperand)>>)
               ELSE ReturnNode(c, P, factor)
      [] f.method = "expr" /\ f.at = "enter" ->
           GoOn(c, P, <<Frame("expr", "left", None, None), Enter("term")>>)
      [] f.method = "expr" /\ f.at \in {"left", "right"} ->
           \* self.term() has returned: the first term, or the right operand
           \* of a BinOp; then the while condition
           LET term == IF f.at = "left" THEN c.ret
                       ELSE BinOp(f.token, f.node, c.ret)
           IN  IF P.curr_token.type \in ExprOperators
               THEN LET op == P.curr_token
                        e == Eat(P, <<"PLUS", "MINUS">>)
                    IN  IF e.raised THEN Raise(c, e)
                        ELSE GoOn(c, e.parser,
                                  <<Frame("expr", "right", op, term),
                                    Enter(ExprRightOperand)>>)
               ELSE ReturnNode(c, P, term)

\* Steps until the outermost call has returned or an exception is raised.
RECURSIVE Run(_)
Run(c) == IF c.raised \/ Len(c.stack) = 0 THEN c ELSE Run(Step(c))

\* What the outermost call gives its caller.
Outcome(c) ==
    IF c.raised THEN RaiseException(c.parser, c.exc)
    ELSE Return(c.parser, c.ret)

\* A call of method on parser P, run to its end.
Call(method, P) ==
    Outcome(Run([parser |-> P, stack |-> <<Enter(method)>>, ret |-> None,
                 raised |-> FALSE, exc |-> <<>>]))

\* Parser.factor
Factor(P) == Call("factor", P)

\* Parser.term
Term(P) == Call("term", P)

\* Parser.expr
Expr(P) == Call("expr", P)

\* Parser.parse
Parse(P) == Expr(P)

(***************************************************************************)
(* Interpreter                                                             *)
(*                                                                         *)
(* A visit gives either the integer it returns or the exception raised.    *)
(***************************************************************************)
Value(v) == [raised |-> FALSE, exc |-> "", value |-> v]

Raised(exc) == [raised |-> TRUE, exc |-> exc, value |-> 0]

\* Mutant: the quotient rounded toward zero.
TruncDiv(x, y) ==
    LET ax == IF x < 0 THEN -x ELSE x
        ay == IF y < 0 THEN -y ELSE y
        q  == ax \div ay
    IN  IF (x < 0) = (y < 0) THEN q ELSE -q

\* Python's x // y on integers, y # 0: the quotient rounded toward
\* negative infinity.
FloorDiv(x, y) ==
    LET ax == IF x < 0 THEN -x ELSE x
        ay == IF y < 0 THEN -y ELSE y
        q  == ax \div ay
    IN  IF (x < 0) = (y < 0) THEN q
        ELSE IF ax % ay = 0 THEN -q
        ELSE -(q + 1)

\* Mutant: a division by zero gives 0.
ApplyOperationNoRaise(type_, x, y) ==
    CASE type_ = "PLUS"  -> Value(x + y)
      [] type_ = "MINUS" -> Value(x - y)
      [] type_ = "MULT"  -> Value(x * y)
      [] type_ = "DIV"   -> IF y = 0 THEN Value(0) ELSE Value(FloorDiv(x, y))

\* Interpreter.operations, applied to two integers.
ApplyOperation(type_, x, y) ==
    CASE type_ = "PLUS"  -> Value(x + y)
      [] type_ = "MINUS" -> Value(x - y)
      [] type_ = "MULT"  -> Value(x * y)
      [] type_ = "DIV"   -> IF y = 0 THEN Raised("ZeroDivisionError")
                            ELSE Value(FloorDiv(x, y))

\* Mutant: the sign is dropped.
ApplySignDropped(type_, v) == v

\* The signs of visit_UnaryOp.
ApplySign(type_, v) == IF type_ = "MINUS" THEN -v ELSE v

\* NodeVisitor.visit with visit_BinOp, visit_Num and visit_UnaryOp.
RECURSIVE Visit(_)
Visit(node) ==
    CASE node.class = "BinOp" ->
           LET l == Visit(node.left)
               r == Visit(node.right)
           IN  IF l.raised THEN l
               ELSE IF r.raised THEN r
               ELSE ApplyOperation(node.token.type, l.value, r.value)
      [] node.class = "Num" -> Value(node.token.value)
      [] node.class = "UnaryOp" ->
           LET v == Visit(node.expr) IN
           IF v.raised THEN v ELSE Value(ApplySign(node.token.type, v.value))

\* Interpreter.execute on Interpreter(ast)
Execute(tree) == Visit(tree)

(***************************************************************************)
(* The sources the components are given.                                   *)
(*                                                                         *)
(* A source is drawn either character by character ("raw") or by writing   *)
(* integer literals into an expression shape; given records how the source *)
(* was written, so that a property can name the literals.                  *)
(***************************************************************************)
\* The characters of the sources drawn character by character: a digit,
\* two operators, the parentheses, a space and an unrecognized character.
Alphabet == {"1", "-", "/", "(", ")", " ", "a"}

RawStrings == UNION {[1..n -> Alphabet] : n \in 0..MaxLen}

Lits == 0..MaxLit

DigitChar(d) ==
    CASE d = 0 -> "0" [] d = 1 -> "1" [] d = 2 -> "2" [] d = 3 -> "3"
      [] d = 4 -> "4" [] d = 5 -> "5" [] d = 6 -> "6" [] d = 7 -> "7"
      [] d = 8 -> "8" [] d = 9 -> "9"

\* The decimal literal of n >= 0, as a test writes it.
RECURSIVE Str(_)
Str(n) == IF n < 10 THEN <<DigitChar(n)>>
          ELSE Str(n \div 10) \o <<DigitChar(n % 10)>>

\* Chains of unary signs, of 0..n signs.
SignChains(n) == UNION {[1..k -> {"+", "-"}] : k \in 0..n}

\* s1(s2(... sk n)): every sign but the last is followed by a parenthesis.
RECURSIVE Nested(_, _)
Nested(signs, n) ==
    IF Len(signs) = 0 THEN Str(n)
    ELSE IF Len(signs) = 1 THEN signs \o Str(n)
    ELSE <<Head(signs), "(">> \o Nested(Tail(signs), n) \o <<")">>

Given(shape, text, ops, signs, lits) ==
    [shape |-> shape, text |-> text, ops |-> ops, signs |-> signs, lits |-> lits]

Givens ==
    {Given("raw", t, <<>>, <<>>, <<>>) : t \in RawStrings}
    \cup {Given(sh, <<>>, <<o1, o2>>, <<>>, <<a, b, c>>) :
            sh \in {"a o b o c"}, o1 \in OperationChars, o2 \in OperationChars,
            a \in Lits, b \in Lits, c \in Lits}
    \cup {Given("(a o b) o c", <<>>, <<o1, o2>>, <<>>, <<a, b, c>>) :
            o1 \in {"+", "-"}, o2 \in {"*", "/"},
            a \in Lits, b \in Lits, c \in Lits}
    \cup {Given("a o (b o c)", <<>>, <<o1, o2>>, <<>>, <<a, b, c>>) :
            o1 \in {"*", "/"}, o2 \in {"+", "-"},
            a \in Lits, b \in Lits, c \in Lits}
    \cup {Given("sa o sb", <<>>, <<o>>, <<s1, s2>>, <<a, b>>) :
            o \in OperationChars, s1 \in SignChains(1), s2 \in SignChains(1),
            a \in Lits, b \in Lits}
    \cup {Given(sh, <<>>, <<>>, <<s>>, <<n>>) :
            sh \in {"sn", "s(n)"}, s \in SignChains(MaxSigns), n \in Lits}

SourceOf(g) ==
    LET o(i) == <<" ", g.ops[i], " ">>
        l(i) == Str(g.lits[i])
    IN  CASE g.shape = "raw" -> g.text
          [] g.shape = "a o b o c" -> l(1) \o o(1) \o l(2) \o o(2) \o l(3)
          [] g.shape = "(a o b) o c" ->
               <<"(">> \o l(1) \o o(1) \o l(2) \o <<")">> \o o(2) \o l(3)
          [] g.shape = "a o (b o c)" ->
               l(1) \o o(1) \o <<"(">> \o l(2) \o o(2) \o l(3) \o <<")">>
          [] g.shape = "sa o sb" ->
               g.signs[1] \o l(1) \o o(1) \o g.signs[2] \o l(2)
          [] g.shape = "sn" -> g.signs[1] \o l(1)
          [] g.shape = "s(n)" -> Nested(g.signs[1], g.lits[1])

(***************************************************************************)
(* The components driven one call at a time on one source:                 *)
(*   Lexer(source), Parser(lexer), parser.parse(),                         *)
(*   Interpreter(ast).execute().                                           *)
(***************************************************************************)
Unset(g) ==
    /\ given = g
    /\ parser = None
    /\ ast = None
    /\ error = <<>>
    /\ result = None
    /\ emitted = <<>>
    /\ stdin = <<>>
    /\ stdout = <<>>

Init ==
    \E g \in Givens :
        /\ Unset(g)
        /\ lexer = NewLexer(SourceOf(g))
        /\ pc = "Lexer"

\* parser = Parser(lexer)
ParserInit ==
    /\ pc = "Lexer"
    /\ parser' = NewParser(lexer)
    /\ lexer' = parser'.lexer
    /\ pc' = "Parser"
    /\ UNCHANGED <<given, ast, error, result, emitted, stdin, stdout>>

\* parse() has left the parser, and the lexer it pulls from, as in r.
Pulled(r) ==
    /\ parser' = r.parser
    /\ lexer' = r.parser.lexer

\* ast = parser.parse(), returning a tree
ParseReturns ==
    /\ pc = "Parser"
    /\ ~Parse(parser).raised
    /\ Pulled(Parse(parser))
    /\ ast' = Parse(parser).node
    /\ pc' = "parsed"
    /\ UNCHANGED <<given, error, result, emitted, stdin, stdout>>

\* ast = parser.parse(), raising an exception
ParseRaises ==
    /\ pc = "Parser"
    /\ Parse(parser).raised
    /\ Pulled(Parse(parser))
    /\ error' = Parse(parser).exc
    /\ pc' = "Exception"
    /\ UNCHANGED <<given, ast, result, emitted, stdin, stdout>>

\* Interpreter(ast).execute(), returning an integer
ExecuteReturns ==
    /\ pc = "parsed"
    /\ ~Execute(ast).raised
    /\ result' = Execute(ast)
    /\ pc' = "executed"
    /\ UNCHANGED <<given, lexer, parser, ast, error, emitted, stdin, stdout>>

\* Interpreter(ast).execute(), raising ZeroDivisionError
ExecuteRaises ==
    /\ pc = "parsed"
    /\ Execute(ast).raised
    /\ result' = Execute(ast)
    /\ pc' = "ZeroDivisionError"
    /\ UNCHANGED <<given, lexer, parser, ast, error, emitted, stdin, stdout>>

Next == ParserInit \/ ParseReturns \/ ParseRaises \/ ExecuteReturns \/ ExecuteRaises

Spec == Init /\ [][Next]_vars

(***************************************************************************)
(* The lexer driven alone, one get_next_token() call at a time.            *)
(***************************************************************************)
\* The lexer is also given a second digit.
LexerAlphabet == Alphabet \cup {"0"}

LexerStrings == UNION {[1..n -> LexerAlphabet] : n \in 0..MaxLen}

InitLexer ==
    \E t \in LexerStrings :
        /\ Unset(Given("raw", t, <<>>, <<>>, <<>>))
        /\ lexer = NewLexer(t)
        /\ pc = "Lexer"

\* lexer.get_next_token()
GetNextTokenCall ==
    /\ lexer.pos < Len(lexer.source) + MaxOverrun
    /\ lexer' = GetNextToken(lexer)
    /\ emitted' = Append(emitted, lexer'.curr_token)
    /\ pc' = "Lexer"
    /\ UNCHANGED <<given, parser, ast, error, result, stdin, stdout>>

NextLexer == GetNextTokenCall

SpecLexer == InitLexer /\ [][NextLexer]_vars

(***************************************************************************)
(* main(): the read loop.  One action is one pass of the while loop, from  *)
(* input() to the break, the continue, the end of the body or the          *)
(* exception that leaves main.                                             *)
(***************************************************************************)
\* The quit sentinel ':q'.
Quit == <<":", "q">>

Lines == {t \in RawStrings : Len(t) <= MaxLineLen} \cup {Quit}

\* Interpreter.__init__(self, ast) called with the positional arguments
\* args: the TypeError Python raises unless exactly one is given.
NewInterpreter(args) ==
    IF Len(args) = 1
    THEN [raised |-> FALSE, exc |-> "", ast |-> args[1]]
    ELSE [raised |-> TRUE, exc |-> "TypeError", ast |-> None]

\* The arguments main passes: interpreter = Interpreter()
MainInterpreterArgs == <<>>

InitMain ==
    /\ Unset(Given("raw", <<>>, <<>>, <<>>, <<>>))
    /\ lexer = None
    /\ pc = "input"

\* source_code = input('pyparser > ') returns line; lexer = Lexer(line);
\* parser = Parser(lexer).
Read(line) ==
    /\ pc = "input"
    /\ Len(stdin) < MaxLines
    /\ stdin' = Append(stdin, line)
    /\ given' = Given("raw", line, <<>>, <<>>, <<>>)

\* source_code == ':q': print('Oui oui'); break
MainQuit(line) ==
    /\ Read(line)
    /\ line = Quit
    /\ stdout' = Append(stdout, "Oui oui")
    /\ pc' = "returned"
    /\ UNCHANGED <<lexer, parser, ast, error, result, emitted>>

\* parser.parse() raises: print('Invalid Input'); continue
MainInvalidInput(line) ==
    /\ Read(line)
    /\ line # Quit
    /\ Parse(NewParser(NewLexer(line))).raised
    /\ Pulled(Parse(NewParser(NewLexer(line))))
    /\ error' = Parse(NewParser(NewLexer(line))).exc
    /\ stdout' = Append(stdout, "Invalid Input")
    /\ pc' = "input"
    /\ UNCHANGED <<ast, result, emitted>>

\* parser.parse() returns: interpreter = Interpreter() raises, and nothing
\* in main catches it, so print(interpreter.execute()) is never reached.
MainInterpreterRaises(line) ==
    /\ Read(line)
    /\ line # Quit
    /\ ~Parse(NewParser(NewLexer(line))).raised
    /\ Pulled(Parse(NewParser(NewLexer(line))))
    /\ ast' = Parse(NewParser(NewLexer(line))).node
    /\ NewInterpreter(MainInterpreterArgs).raised
    /\ pc' = NewInterpreter(MainInterpreterArgs).exc
    /\ UNCHANGED <<error, result, emitted, stdout>>

\* input() meets the end of the input stream: EOFError leaves main.
MainEndOfInput ==
    /\ pc = "input"
    /\ pc' = "EOFError"
    /\ UNCHANGED <<given, lexer, parser, ast, error, result, emitted, stdin, stdout>>

NextMain ==
    \/ \E line \in Lines :
          MainQuit(line) \/ MainInvalidInput(line) \/ MainInterpreterRaises(line)
    \/ MainEndOfInput

SpecMain == InitMain /\ [][NextMain]_vars

(***************************************************************************)
(* Properties.                                                             *)
(***************************************************************************)
source == lexer.source

\* The pipeline has run to its end on the given source.
Finished == pc \in {"executed", "ZeroDivisionError", "Exception"}

\* The integer arithmetic the expressions denote; x / y is floor(x / y).
Arith(o, x, y) ==
    CASE o = "+" -> x + y
      [] o = "-" -> x - y
      [] o = "*" -> x * y
      [] o = "/" -> x \div y

\* o applied to x and y divides by zero.
DivByZero(o, y) == o = "/" /\ y = 0

\* x under a chain of unary signs.
RECURSIVE Signed(_, _)
Signed(signs, x) ==
    IF Len(signs) = 0 THEN x
    ELSE IF Head(signs) = "-" THEN -Signed(Tail(signs), x)
    ELSE Signed(Tail(signs), x)

IntegerToken(n) == Token("INTEGER", n)

OperatorToken(o) == Token(Operations(o), o)

\* Lexer, parser and interpreter on one source: the outcome.
Evaluate(src) ==
    LET r == Parse(NewParser(NewLexer(src))) IN
    IF r.raised THEN [status |-> "Exception", exc |-> r.exc, value |-> 0]
    ELSE LET v == Execute(r.node) IN
         IF v.raised THEN [status |-> v.exc, exc |-> <<>>, value |-> 0]
         ELSE [status |-> "executed", exc |-> <<>>, value |-> v.value]

\* The outcome the pipeline has reached, in a Finished state.
Reached ==
    [status |-> pc, exc |-> error,
     value |-> IF pc = "executed" THEN result.value ELSE 0]

\* The tokens the lexer gives, up to the first EOF.
RECURSIVE TokensFrom(_)
TokensFrom(L) ==
    LET M == GetNextToken(L) IN
    IF M.curr_token.type = "EOF" THEN <<M.curr_token>>
    ELSE <<M.curr_token>> \o TokensFrom(M)

TokensOf(src) == TokensFrom(NewLexer(src))

(***************************************************************************)
(* C1.  The grammar of the module's docstring, on token types.             *)
(***************************************************************************)
RECURSIVE IsFactor(_), IsTerm(_), IsExpr(_)
IsFactor(ts) ==
    \/ ts = <<"INTEGER">>
    \/ Len(ts) >= 2 /\ ts[1] \in {"PLUS", "MINUS"} /\ IsFactor(Tail(ts))
    \/ Len(ts) >= 3 /\ ts[1] = "LPAREN" /\ ts[Len(ts)] = "RPAREN"
                    /\ IsExpr(SubSeq(ts, 2, Len(ts) - 1))

IsTerm(ts) ==
    \/ IsFactor(ts)
    \/ \E k \in 2..(Len(ts) - 1) :
          /\ ts[k] \in {"MULT", "DIV"}
          /\ IsTerm(SubSeq(ts, 1, k - 1))
          /\ IsFactor(SubSeq(ts, k + 1, Len(ts)))

IsExpr(ts) ==
    \/ IsTerm(ts)
    \/ \E k \in 2..(Len(ts) - 1) :
          /\ ts[k] \in {"PLUS", "MINUS"}
          /\ IsExpr(SubSeq(ts, 1, k - 1))
          /\ IsTerm(SubSeq(ts, k + 1, Len(ts)))

\* The token types of a source, the closing EOF left out.
TokenTypes(src) ==
    LET ts == TokensOf(src) IN [i \in 1..(Len(ts) - 1) |-> ts[i].type]

\* C1: whenever the tokens of the source are not a sentence of the grammar
\* (an expr followed by the end of input), parse() raises: it never returns
\* a tree.
C1_MalformedInputRaises ==
    pc \in {"parsed", "executed", "ZeroDivisionError"}
        => IsExpr(TokenTypes(source))

(***************************************************************************)
(* C2.                                                                     *)
(***************************************************************************)
\* C2: once get_next_token() has returned an EOF token, every later call
\* on the same lexer returns EOF again.
C2_EndOfInputIdempotent ==
    [][lexer.curr_token.type = "EOF" => lexer'.curr_token.type = "EOF"]_vars

(***************************************************************************)
(* C3.                                                                     *)
(***************************************************************************)
\* C3: every line read other than the quit sentinel has given exactly one
\* output, after which the loop reads on; main ends only on the quit
\* sentinel or on the end of the input stream.
C3_NoLineIsFatal ==
    /\ pc \in {"input", "returned", "EOFError"}
    /\ pc = "returned" => stdin[Len(stdin)] = Quit
    /\ pc \in {"input", "EOFError"} =>
          /\ Len(stdout) = Len(stdin)
          /\ \A i \in 1..Len(stdin) : stdin[i] # Quit

(***************************************************************************)
(* C4.                                                                     *)
(***************************************************************************)
\* C4: "a + b * c" and "a - b * c" (and likewise with /) evaluate to
\* a + (b * c), the multiplicative operator applied first, and
\* "(a + b) * c" evaluates to (a + b) * c, the parenthesized expression as a
\* unit (division by zero left to C8).
C4_Precedence ==
    LET a == given.lits[1]
        b == given.lits[2]
        c == given.lits[3]
        o1 == given.ops[1]
        o2 == given.ops[2]
    IN
    /\ ( /\ Finished
         /\ given.shape = "a o b o c"
         /\ o1 \in {"+", "-"} /\ o2 \in {"*", "/"}
         /\ ~DivByZero(o2, c) )
       => pc = "executed" /\ result.value = Arith(o1, a, Arith(o2, b, c))
    /\ ( /\ Finished
         /\ given.shape = "(a o b) o c"
         /\ ~DivByZero(o2, c) )
       => pc = "executed" /\ result.value = Arith(o2, Arith(o1, a, b), c)

\* "2 + 3 * 4" has given 14.
C4_Witness ==
    /\ pc = "executed"
    /\ given.shape = "a o b o c"
    /\ given.ops = <<"+", "*">>
    /\ given.lits = <<2, 3, 4>>
    /\ result.value = 14

(***************************************************************************)
(* C5.                                                                     *)
(***************************************************************************)
\* C5: a chain of two operators of equal precedence groups from the left:
\* "a - b - c" evaluates to (a - b) - c and "a / b / c" to (a / b) / c, and
\* the tree parse() returns is a BinOp whose left child is the BinOp built
\* first.
C5_LeftAssociative ==
    LET a == given.lits[1]
        b == given.lits[2]
        c == given.lits[3]
        o1 == given.ops[1]
        o2 == given.ops[2]
    IN
    ( /\ given.shape = "a o b o c"
      /\ \/ {o1, o2} \subseteq {"+", "-"}
         \/ {o1, o2} \subseteq {"*", "/"} )
    => /\ pc # "Exception"
       /\ pc \in {"parsed", "executed", "ZeroDivisionError"} =>
             ast = BinOp(OperatorToken(o2),
                         BinOp(OperatorToken(o1),
                               Num(IntegerToken(a)), Num(IntegerToken(b))),
                         Num(IntegerToken(c)))
       /\ (Finished /\ ~DivByZero(o1, b) /\ ~DivByZero(o2, c)) =>
             pc = "executed" /\ result.value = Arith(o2, Arith(o1, a, b), c)

\* "8 - 3 - 2" has given 3.
C5_Witness ==
    /\ pc = "executed"
    /\ given.shape = "a o b o c"
    /\ given.ops = <<"-", "-">>
    /\ given.lits = <<8, 3, 2>>
    /\ result.value = 3
    /\ ast.left.class = "BinOp"

(***************************************************************************)
(* C6.                                                                     *)
(***************************************************************************)
\* C6: a chain of k >= 1 unary signs in front of a factor, with or without
\* parentheses between the signs, is legal and gives the factor's value
\* negated once per '-'; a unary sign binds tighter than a binary operator:
\* "sa o sb" evaluates to (sa) o (sb).
C6_UnaryNesting ==
    /\ ( /\ Finished
         /\ given.shape \in {"sn", "s(n)"}
         /\ Len(given.signs[1]) >= 1 )
       => pc = "executed"
          /\ result.value = Signed(given.signs[1], given.lits[1])
    /\ ( /\ Finished
         /\ given.shape = "sa o sb"
         /\ Len(given.signs[1]) + Len(given.signs[2]) >= 1
         /\ ~DivByZero(given.ops[1], given.lits[2]) )
       => pc = "executed"
          /\ result.value = Arith(given.ops[1],
                                  Signed(given.signs[1], given.lits[1]),
                                  Signed(given.signs[2], given.lits[2]))

\* "--5" has given 5.
C6_Witness ==
    /\ pc = "executed"
    /\ given.shape = "sn"
    /\ given.signs = << <<"-", "-">> >>
    /\ given.lits = <<5>>
    /\ result.value = 5

(***************************************************************************)
(* C7.                                                                     *)
(***************************************************************************)
\* q is the quotient of x by y # 0 rounded toward negative infinity.
IsFloorQuotient(q, x, y) ==
    IF y > 0 THEN q * y <= x /\ x < (q + 1) * y
    ELSE q * y >= x /\ x > (q + 1) * y

\* C7: "a / b", with either operand under a unary sign or none and b # 0,
\* gives the quotient rounded toward negative infinity.
C7_FloorDivision ==
    ( /\ Finished
      /\ given.shape = "sa o sb"
      /\ given.ops[1] = "/"
      /\ given.lits[2] # 0 )
    => pc = "executed"
       /\ IsFloorQuotient(result.value,
                          Signed(given.signs[1], given.lits[1]),
                          Signed(given.signs[2], given.lits[2]))

\* "-7 / 2" has given -4.
C7_Witness ==
    /\ pc = "executed"
    /\ given.shape = "sa o sb"
    /\ given.ops = <<"/">>
    /\ given.signs = << <<"-">>, <<>> >>
    /\ given.lits = <<7, 2>>
    /\ result.value = -4

(***************************************************************************)
(* C8.                                                                     *)
(***************************************************************************)
\* Somewhere in the tree a DIV node's right operand evaluates to zero.
RECURSIVE DividesByZero(_)
DividesByZero(node) ==
    CASE node.class = "Num" -> FALSE
      [] node.class = "UnaryOp" -> DividesByZero(node.expr)
      [] node.class = "BinOp" ->
           \/ node.token.type = "DIV" /\ Visit(node.right) = Value(0)
           \/ DividesByZero(node.left)
           \/ DividesByZero(node.right)

\* C8: execute() on a tree in which some DIV node's right operand evaluates
\* to zero raises ZeroDivisionError and returns no value, wherever the node
\* sits: so do "a / 0" under any signs and "a / (b - b)".
C8_DivisionByZero ==
    /\ (pc \in {"executed", "ZeroDivisionError"} /\ DividesByZero(ast))
       => pc = "ZeroDivisionError" /\ result = Raised("ZeroDivisionError")
    /\ ( /\ Finished
         /\ \/ /\ given.shape = "sa o sb"
               /\ DivByZero(given.ops[1], given.lits[2])
            \/ /\ given.shape = "a o (b o c)"
               /\ given.ops = <<"/", "-">>
               /\ given.lits[2] = given.lits[3] )
       => pc = "ZeroDivisionError"

\* "1 / (2 - 2)" has raised ZeroDivisionError.
C8_Witness ==
    /\ pc = "ZeroDivisionError"
    /\ given.shape = "a o (b o c)"
    /\ given.ops = <<"/", "-">>
    /\ given.lits = <<1, 2, 2>>
    /\ result.raised

(***************************************************************************)
(* C9.                                                                     *)
(***************************************************************************)
\* Whitespace written into a source.
Written == {" ", "\t"}

\* src with w written after its first i characters.
Insert(src, i, w) ==
    SubSeq(src, 1, i) \o <<w>> \o SubSeq(src, i + 1, Len(src))

\* After the first i characters src is not inside a run of digits.
AtGap(src, i) ==
    ~(i >= 1 /\ i < Len(src) /\ src[i] \in Digits /\ src[i + 1] \in Digits)

SameTokens(ts, us) ==
    /\ Len(ts) = Len(us)
    /\ \A i \in 1..Len(ts) :
          /\ ts[i].type = us[i].type
          /\ ts[i].value = us[i].value

IsRunEnd(s, e) ==
    s[e] \in Digits /\ (e = Len(s) \/ s[e + 1] \notin Digits)

\* Where the maximal run of digits that ends at e starts.
RunStart(s, e) ==
    CHOOSE j \in 1..e :
        /\ \A k \in j..e : s[k] \in Digits
        /\ j = 1 \/ s[j - 1] \notin Digits

RECURSIVE Pow10(_)
Pow10(n) == IF n = 0 THEN 1 ELSE 10 * Pow10(n - 1)

\* The base-10 value of s[j..e]: each digit by the weight of its place.
RECURSIVE RunValue(_, _, _)
RunValue(s, j, e) ==
    IF j > e THEN 0
    ELSE DigitValue(s[j]) * Pow10(e - j) + RunValue(s, j + 1, e)

\* The lexical items of s that end in its first p characters: the maximal
\* runs of digits, and every character that is neither digit nor whitespace.
Items(s, p) ==
    Cardinality({e \in 1..p : IsRunEnd(s, e)})
    + Cardinality({i \in 1..p : s[i] \notin (Digits \cup Whitespace)})

\* C10: every maximal run of digits gives exactly one INTEGER token, whose
\* value is the base-10 value of the whole run, and leaves the cursor on the
\* last digit of the run, so that the next call starts right after it: the
\* tokens given so far are one per item read, none skipped and none read
\* twice.  A source that is only digits evaluates to their value.
C10_IntegerLexing ==
    LET p == lexer.pos + 1
        n == Len(source)
    IN
    /\ Len(emitted) = Items(source, IF p < n THEN p ELSE n)
                      + (IF p > n THEN p - n ELSE 0)
    /\ (Len(emitted) > 0 /\ lexer.curr_token.type = "INTEGER") =>
          /\ p <= n
          /\ IsRunEnd(source, p)
          /\ lexer.curr_token.value = RunValue(source, RunStart(source, p), p)
    /\ (Len(emitted) > 0 /\ p <= n /\ source[p] \in Digits) =>
          lexer.curr_token.type = "INTEGER"
    /\ (n >= 1 /\ \A k \in 1..n : source[k] \in Digits) =>
          Evaluate(source) =
             [status |-> "executed", exc |-> <<>>, value |-> RunValue(source, 1, n)]

\* "10-1" has been lexed as 10, -, 1, EOF.
C10_Witness ==
    /\ source = <<"1", "0", "-", "1">>
    /\ Len(emitted) = 4
    /\ emitted[1] = IntegerToken(10)
    /\ emitted[2] = OperatorToken("-")
    /\ emitted[3] = IntegerToken(1)
    /\ emitted[4] = Token("EOF", None)

====
